---------------------------- MODULE Spec2Model ----------------------------
(***************************************************************************)
(* Healthcare triage system: the rule-based symptom analyzer               *)
(* (src/models/symptom_analyzer.py), the image analyzer                    *)
(* (src/models/image_analyzer.py), the triage logic                        *)
(* (src/utils/triage_logic.py) and the symptom page of the Streamlit app   *)
(* (src/app.py).                                                           *)
(*                                                                         *)
(* Numbers.  Python floats are modelled by exact rationals                 *)
(* [num |-> n, den |-> d] with d > 0.  Every float the code compares with  *)
(* a threshold is a correctly rounded quotient or sum whose exact value is *)
(* either representable or far from the threshold, so the exact comparison *)
(* agrees with the float comparison.  Texts are TLA+ strings; TLC treats   *)
(* them as sequences of characters (Len, SubSeq, \o).                      *)
(***************************************************************************)
EXTENDS Integers, Sequences, FiniteSets, TLC

VARIABLES
    symptom_text,     \* the text handed to analyze_symptoms / typed in the text area
    pain_scale,       \* the slider value read by the last press of "Analyze Symptoms"
    results,          \* the symptom result mapping (None before the first analysis)
    st_error,         \* TRUE when the last press showed st.error
    patient_records,  \* st.session_state.patient_records
    image_input,      \* the image handed to analyze_image and what its pixels measure
    image_results,    \* the mapping analyze_image returned (None before the call)
    image_raised,     \* TRUE when analyze_image let an exception reach its caller
    current_queue,    \* the queue snapshot handed to calculate_queue_position
    triage_call,      \* the first TriageLogic call: its arguments and what it returned
    repeat,           \* what the same call returned the second time (None before it)
    symptom_analyzer, \* the attributes of the LightweightSymptomAnalyzer instance
    triage_logic,     \* the attributes of the TriageLogic instance
    component         \* the component this behaviour exercises

vars == <<component, symptom_text, pain_scale, results, st_error, patient_records,
          image_input, image_results, image_raised, current_queue, triage_call, repeat,
          symptom_analyzer, triage_logic>>

None == [none |-> TRUE]
NoCall == [op |-> "none"]

(***************************************************************************)
(* Bounds of the model.                                                    *)
(***************************************************************************)
MaxPhrases == 2      \* phrases in a generated symptom text
MaxRecords == 1      \* accepted presses of "Analyze Symptoms" in one session
MaxQueue == 3        \* entries of a queue snapshot
MaxPosition == 26    \* queue positions handed to estimate_wait_time

(***************************************************************************)
(* Rational arithmetic standing for Python's floats.                       *)
(***************************************************************************)
Rat(n, d) == [num |-> n, den |-> d]
RatOfInt(n) == Rat(n, 1)
RatLE(a, b) == a.num * b.den <= b.num * a.den
RatLT(a, b) == a.num * b.den < b.num * a.den
RatGE(a, b) == RatLE(b, a)
RatGT(a, b) == RatLT(b, a)
RatEq(a, b) == a.num * b.den = b.num * a.den
RatAdd(a, b) == Rat(a.num * b.den + b.num * a.den, a.den * b.den)
\* Python's min(a, b): b only when b < a
RatMin(a, b) == IF RatLT(b, a) THEN b ELSE a
\* Python's max(a, b): b only when b > a
RatMax(a, b) == IF RatGT(b, a) THEN b ELSE a

\* Python's round(x, ndigits) for x >= 0, scale = 10^ndigits: to the nearest
\* multiple of 1/scale, an exact tie going to the even one.
PyRound(x, scale) ==
    LET n == x.num * scale
        q == n \div x.den
        r == n % x.den
    IN  Rat(IF 2 * r > x.den THEN q + 1
            ELSE IF 2 * r = x.den THEN q + (q % 2)
            ELSE q, scale)

(***************************************************************************)
(* Python string operations used by the symptom analyzer.                  *)
(***************************************************************************)
UpperChars == "ABCDEFGHIJKLMNOPQRSTUVWXYZ"
LowerChars == "abcdefghijklmnopqrstuvwxyz"
DigitChars == "0123456789"

CharSet(s) == {SubSeq(s, i, i) : i \in 1..Len(s)}
\* \s of the regular expressions and the whitespace of str.strip / str.split
IsSpace(c) == c \in {" ", "\t", "\n"}
\* \w of the regular expressions
WordChars == CharSet(UpperChars) \cup CharSet(LowerChars) \cup CharSet(DigitChars) \cup {"_"}
IsWordChar(c) == c \in WordChars

\* str.lower on one character
LowerOf == [c \in CharSet(UpperChars) |->
                LET i == CHOOSE j \in 1..Len(UpperChars) : SubSeq(UpperChars, j, j) = c
                IN  SubSeq(LowerChars, i, i)]
LowerChar(c) == IF c \in DOMAIN LowerOf THEN LowerOf[c] ELSE c

RECURSIVE str_lower(_)
str_lower(s) == IF s = "" THEN "" ELSE LowerChar(Head(s)) \o str_lower(Tail(s))

RECURSIVE str_lstrip(_)
str_lstrip(s) == IF s = "" THEN "" ELSE IF IsSpace(Head(s)) THEN str_lstrip(Tail(s)) ELSE s

RECURSIVE str_rstrip(_)
str_rstrip(s) ==
    IF s = "" THEN ""
    ELSE IF IsSpace(SubSeq(s, Len(s), Len(s))) THEN str_rstrip(SubSeq(s, 1, Len(s) - 1))
    ELSE s

\* str_strip removing nothing
str_strip_nothing(s) ==
    s
str_strip(s) == str_rstrip(str_lstrip(s))

\* re.sub(r'[^\w\s]', ' ', text)
RECURSIVE sub_punctuation(_)
sub_punctuation(s) ==
    IF s = "" THEN ""
    ELSE (IF IsWordChar(Head(s)) \/ IsSpace(Head(s)) THEN Head(s) ELSE " ")
         \o sub_punctuation(Tail(s))

\* re.sub(r'\s+', ' ', text)
RECURSIVE sub_whitespace(_)
sub_whitespace(s) ==
    IF s = "" THEN ""
    ELSE IF IsSpace(Head(s)) THEN " " \o sub_whitespace(str_lstrip(s))
    ELSE Head(s) \o sub_whitespace(Tail(s))

\* the text after its first run of non-whitespace characters
RECURSIVE DropWord(_)
DropWord(s) == IF s = "" THEN "" ELSE IF IsSpace(Head(s)) THEN s ELSE DropWord(Tail(s))

\* len(text.split())
RECURSIVE split_len(_)
split_len(s) ==
    LET t == str_lstrip(s)
    IN  IF t = "" THEN 0 ELSE 1 + split_len(DropWord(t))

\* keyword in text
str_in(keyword, text) ==
    \E i \in 1..(Len(text) - Len(keyword) + 1) :
        SubSeq(text, i, i + Len(keyword) - 1) = keyword

clean_text(text) ==
    LET t1 == str_strip(str_lower(text))
        t2 == sub_punctuation(t1)
    IN  sub_whitespace(t2)

(***************************************************************************)
(* LightweightSymptomAnalyzer: the attributes __init__ sets, the           *)
(* dictionaries in their insertion order.                                  *)
(***************************************************************************)
LightweightSymptomAnalyzer == [
  severity_keywords |-> <<
    [name |-> "critical", score |-> 10,
     keywords |-> <<"chest pain", "difficulty breathing", "severe bleeding", "unconscious",
                    "stroke", "heart attack", "severe allergic reaction">>],
    [name |-> "urgent", score |-> 7,
     keywords |-> <<"high fever", "severe pain", "vomiting blood", "severe headache",
                    "difficulty swallowing", "severe burns">>],
    [name |-> "moderate", score |-> 4,
     keywords |-> <<"fever", "headache", "nausea", "dizziness", "fatigue", "cough",
                    "stomach pain">>],
    [name |-> "low", score |-> 2,
     keywords |-> <<"mild pain", "runny nose", "slight fever", "minor cut", "bruise",
                    "sore throat">>] >>,
  specialty_mapping |-> <<
    [specialty |-> "Emergency",
     keywords |-> <<"chest pain", "difficulty breathing", "severe bleeding", "unconscious",
                    "stroke">>],
    [specialty |-> "Cardiology",
     keywords |-> <<"chest pain", "heart palpitations", "shortness of breath",
                    "irregular heartbeat">>],
    [specialty |-> "Neurology",
     keywords |-> <<"headache", "dizziness", "seizure", "numbness", "confusion",
                    "memory loss">>],
    [specialty |-> "Gastroenterology",
     keywords |-> <<"stomach pain", "nausea", "vomiting", "diarrhea", "constipation",
                    "acid reflux">>],
    [specialty |-> "Dermatology",
     keywords |-> <<"rash", "skin irritation", "itching", "acne", "mole changes",
                    "skin lesion">>],
    [specialty |-> "Orthopedics",
     keywords |-> <<"joint pain", "back pain", "fracture", "sprain", "muscle pain",
                    "bone pain">>],
    [specialty |-> "General Practice",
     keywords |-> <<"fever", "fatigue", "general discomfort", "cold symptoms",
                    "flu symptoms">>] >> ]

\* self.severity_keywords and self.specialty_mapping, as the methods read them
severity_keywords == symptom_analyzer.severity_keywords
specialty_mapping == symptom_analyzer.specialty_mapping

\* the inner loop of the keyword scans: the number of keywords of the list
\* that occur in the text
RECURSIVE CountMatches(_, _)
CountMatches(keywords, text) ==
    IF keywords = <<>> THEN 0
    ELSE (IF str_in(Head(keywords), text) THEN 1 ELSE 0) + CountMatches(Tail(keywords), text)

\* ScanSeverity counting a tier once however many of its keywords occur
RECURSIVE ScanSeverity_once_per_tier(_, _, _, _)
ScanSeverity_once_per_tier(i, text, total_score, matches) ==
    IF i > Len(severity_keywords) THEN [total_score |-> total_score, matches |-> matches]
    ELSE LET data == severity_keywords[i]
             n == IF CountMatches(data.keywords, text) > 0 THEN 1 ELSE 0
         IN  ScanSeverity_once_per_tier(i + 1, text, total_score + n * data.score, matches + n)
\* the two nested loops of _calculate_severity_lightweight, from tier i on,
\* carrying total_score and matches
RECURSIVE ScanSeverity(_, _, _, _)
ScanSeverity(i, text, total_score, matches) ==
    IF i > Len(severity_keywords) THEN [total_score |-> total_score, matches |-> matches]
    ELSE LET data == severity_keywords[i]
             n == CountMatches(data.keywords, text)
         IN  ScanSeverity(i + 1, text, total_score + n * data.score, matches + n)

\* calculate_severity_lightweight dividing by max(matches, 1) in place of the
\* early return of 3.0
calculate_severity_lightweight_no_default(text) ==
    LET acc == ScanSeverity(1, text, 0, 0)
    IN  RatMin(Rat(acc.total_score, IF acc.matches = 0 THEN 1 ELSE acc.matches), RatOfInt(10))
calculate_severity_lightweight(text) ==
    LET acc == ScanSeverity(1, text, 0, 0)
    IN  IF acc.matches = 0 THEN RatOfInt(3)
        ELSE RatMin(Rat(acc.total_score, acc.matches), RatOfInt(10))

calculate_priority(severity_score) ==
    IF RatGE(severity_score, RatOfInt(8)) THEN "CRITICAL"
    ELSE IF RatGE(severity_score, RatOfInt(6)) THEN "URGENT"
    ELSE IF RatGE(severity_score, RatOfInt(4)) THEN "MODERATE"
    ELSE "LOW"

\* FirstMax keeping the last of the entries that tie for the maximum (>= for >)
RECURSIVE FirstMax_last(_, _, _)
FirstMax_last(i, text, best) ==
    IF i > Len(specialty_mapping) THEN specialty_mapping[best].specialty
    ELSE IF CountMatches(specialty_mapping[i].keywords, text)
              >= CountMatches(specialty_mapping[best].keywords, text)
         THEN FirstMax_last(i + 1, text, i)
         ELSE FirstMax_last(i + 1, text, best)
\* max(specialty_scores, key=specialty_scores.get): the first entry, in
\* insertion order, whose score no other entry exceeds
RECURSIVE FirstMax(_, _, _)
FirstMax(i, text, best) ==
    IF i > Len(specialty_mapping) THEN specialty_mapping[best].specialty
    ELSE IF CountMatches(specialty_mapping[i].keywords, text)
              > CountMatches(specialty_mapping[best].keywords, text)
         THEN FirstMax(i + 1, text, i)
         ELSE FirstMax(i + 1, text, best)

determine_specialty_lightweight(text) ==
    IF \A i \in 1..Len(specialty_mapping) : CountMatches(specialty_mapping[i].keywords, text) = 0
    THEN "General Practice"
    ELSE FirstMax(2, text, 1)

\* found_symptoms of _extract_key_symptoms, as the set list(set(...)) makes of it
FoundSymptoms(text) ==
    {k \in UNION {{severity_keywords[i].keywords[j] : j \in 1..Len(severity_keywords[i].keywords)}
                  : i \in 1..Len(severity_keywords)} : str_in(k, text)}

\* list(set(found_symptoms))[:5]: the order of a set of strings is not fixed by
\* the language, so the five that survive are any five
extract_key_symptoms_choices(text) ==
    IF Cardinality(FoundSymptoms(text)) <= 5 THEN {FoundSymptoms(text)}
    ELSE {s \in SUBSET FoundSymptoms(text) : Cardinality(s) = 5}

generate_recommendations(severity_score, specialty) ==
    IF RatGE(severity_score, RatOfInt(8)) THEN
        <<"Seek immediate emergency care",
          "Call emergency services if symptoms worsen",
          "Do not drive yourself to hospital",
          "Time-sensitive condition - act now">>
    ELSE IF RatGE(severity_score, RatOfInt(6)) THEN
        <<"Schedule urgent appointment with " \o specialty,
          "Monitor symptoms closely",
          "Seek care within 24 hours",
          "Document symptom progression">>
    ELSE IF RatGE(severity_score, RatOfInt(4)) THEN
        <<"Schedule appointment with " \o specialty,
          "Monitor symptoms for changes",
          "Consider appropriate over-the-counter remedies",
          "Rest and maintain hydration">>
    ELSE
        <<"Routine consultation with " \o specialty \o " if symptoms persist",
          "Home care and monitoring",
          "Over-the-counter remedies may help",
          "Contact healthcare provider if symptoms worsen">>

symptom_estimate_wait_time(priority) ==
    CASE priority = "CRITICAL" -> "Immediate (0-15 minutes)"
      [] priority = "URGENT" -> "Priority (30-60 minutes)"
      [] priority = "MODERATE" -> "Standard (1-3 hours)"
      [] priority = "LOW" -> "Routine (2-4 hours)"
      [] OTHER -> "2-4 hours"

\* calculate_confidence without the cap at 95
calculate_confidence_uncapped(text) ==
    LET word_count == split_len(text)
        symptom_matches == ScanSeverity(1, text, 0, 0).matches
    IN  IF word_count = 0 THEN RatOfInt(0)
        ELSE PyRound(Rat(symptom_matches * 100, word_count), 10)
calculate_confidence(text) ==
    LET word_count == split_len(text)
        symptom_matches == ScanSeverity(1, text, 0, 0).matches
    IN  IF word_count = 0 THEN RatOfInt(0)
        ELSE PyRound(RatMin(Rat(symptom_matches * 100, word_count), RatOfInt(95)), 10)

\* the mapping analyze_symptoms returns when list(set(...))[:5] keeps key_symptoms
analyze_symptoms_with(symptom_text_arg, key_symptoms) ==
    LET cleaned_text == clean_text(symptom_text_arg)
        severity_score == calculate_severity_lightweight(cleaned_text)
        specialty == determine_specialty_lightweight(cleaned_text)
        priority == calculate_priority(severity_score)
    IN  [severity_score |-> PyRound(severity_score, 100),
         priority_level |-> priority,
         recommended_specialty |-> specialty,
         key_symptoms |-> key_symptoms,
         recommendations |-> generate_recommendations(severity_score, specialty),
         estimated_wait_time |-> symptom_estimate_wait_time(priority),
         urgency_flag |-> RatGT(severity_score, RatOfInt(7)),
         confidence_score |-> calculate_confidence(cleaned_text)]

\* every mapping analyze_symptoms can return for the text
analyze_symptoms(symptom_text_arg) ==
    {analyze_symptoms_with(symptom_text_arg, ks)
        : ks \in extract_key_symptoms_choices(clean_text(symptom_text_arg))}

(***************************************************************************)
(* LightweightImageAnalyzer.  The OpenCV measurements are inputs: an image *)
(* is what its pixels measure (image_input.features), and where, if        *)
(* anywhere, decoding or processing it raises (image_input.fails_at).      *)
(***************************************************************************)
\* calculate_image_severity with the redness rule firing at its threshold (>= for >)
calculate_image_severity_inclusive(color_analysis, texture_analysis, shape_analysis) ==
    LET s1 == IF RatGE(color_analysis.red_percentage, RatOfInt(20)) THEN 3 ELSE 0
        s2 == IF RatGT(color_analysis.color_uniformity, RatOfInt(50)) THEN 2 ELSE 0
        s3 == IF RatGT(texture_analysis.texture_variance, RatOfInt(1000)) THEN 2 ELSE 0
        s4 == IF RatGT(texture_analysis.edge_density, RatOfInt(30)) THEN 1 ELSE 0
        s5 == IF RatGT(shape_analysis.irregularity_score, Rat(7, 10)) THEN 2 ELSE 0
        s6 == IF shape_analysis.contour_count > 5 THEN 1 ELSE 0
        severity == s1 + s2 + s3 + s4 + s5 + s6
    IN  IF 10 < severity THEN 10 ELSE severity
calculate_image_severity(color_analysis, texture_analysis, shape_analysis) ==
    LET s1 == IF RatGT(color_analysis.red_percentage, RatOfInt(20)) THEN 3 ELSE 0
        s2 == IF RatGT(color_analysis.color_uniformity, RatOfInt(50)) THEN 2 ELSE 0
        s3 == IF RatGT(texture_analysis.texture_variance, RatOfInt(1000)) THEN 2 ELSE 0
        s4 == IF RatGT(texture_analysis.edge_density, RatOfInt(30)) THEN 1 ELSE 0
        s5 == IF RatGT(shape_analysis.irregularity_score, Rat(7, 10)) THEN 2 ELSE 0
        s6 == IF shape_analysis.contour_count > 5 THEN 1 ELSE 0
        severity == s1 + s2 + s3 + s4 + s5 + s6
    IN  IF 10 < severity THEN 10 ELSE severity

generate_findings(color_analysis, texture_analysis, shape_analysis) ==
    LET f1 == IF RatGT(color_analysis.red_percentage, RatOfInt(15))
              THEN <<"Possible inflammation or irritation detected">> ELSE <<>>
        f2 == IF RatGT(texture_analysis.texture_variance, RatOfInt(1500))
              THEN <<"Irregular texture patterns observed">> ELSE <<>>
        f3 == IF RatGT(shape_analysis.irregularity_score, Rat(6, 10))
              THEN <<"Irregular shape characteristics noted">> ELSE <<>>
        f4 == IF RatGT(color_analysis.color_uniformity, RatOfInt(60))
              THEN <<"Non-uniform coloration detected">> ELSE <<>>
        findings == f1 \o f2 \o f3 \o f4
    IN  IF findings = <<>>
        THEN <<"No significant abnormalities detected in basic analysis">>
        ELSE findings

\* image_confidence without the floor of 40
image_confidence_no_floor(severity_score) ==
    RatMin(RatOfInt(85), RatOfInt(severity_score * 10))
\* min(85.0, max(40.0, severity_score * 10))
image_confidence(severity_score) ==
    RatMin(RatOfInt(85), RatMax(RatOfInt(40), RatOfInt(severity_score * 10)))

analyze_image_features(features) ==
    LET color_analysis == [red_percentage |-> features.red_percentage,
                           color_uniformity |-> features.color_uniformity]
        texture_analysis == [texture_variance |-> features.texture_variance,
                             edge_density |-> features.edge_density]
        shape_analysis == [contour_count |-> features.contour_count,
                           irregularity_score |-> features.irregularity_score]
        severity_score == calculate_image_severity(color_analysis, texture_analysis, shape_analysis)
    IN  [color_analysis |-> color_analysis,
         texture_analysis |-> texture_analysis,
         shape_analysis |-> shape_analysis,
         severity_score |-> severity_score,
         confidence |-> image_confidence(severity_score),
         findings |-> generate_findings(color_analysis, texture_analysis, shape_analysis)]

generate_image_recommendations(analysis_results) ==
    IF analysis_results.severity_score >= 7 THEN
        <<"Immediate medical attention recommended",
          "Document changes with photos",
          "Visit emergency care or urgent care center",
          "Note any associated symptoms">>
    ELSE IF analysis_results.severity_score >= 4 THEN
        <<"Schedule appointment with healthcare provider",
          "Monitor for changes",
          "Take photos to track progression",
          "Consider dermatology consultation if skin-related">>
    ELSE
        <<"Continue monitoring",
          "Basic home care may be sufficient",
          "Contact healthcare provider if symptoms worsen",
          "Keep record of any changes">>

\* the places of the try block that can raise: base64.b64decode / Image.open
\* ("decode", only for a str argument), np.array / cv2.cvtColor ("convert"),
\* _analyze_image_features ("features")
FailurePoints == {"decode", "convert", "features"}

\* analyze_image with the try block around the decoding only: a failure of
\* _analyze_image_features leaves the method
analyze_image_narrow_try(image_data, image_type) ==
    IF image_data.fails_at = "features" THEN [raised |-> TRUE, value |-> None]
    ELSE IF image_data.fails_at \in FailurePoints THEN
        [raised |-> FALSE,
         value |-> [error |-> "Image analysis failed: " \o image_data.fails_at,
                    recommendations |->
                        <<"Please consult healthcare professional for proper evaluation">>,
                    confidence_score |-> RatOfInt(0),
                    requires_professional_review |-> TRUE]]
    ELSE
        LET analysis_results == analyze_image_features(image_data.features)
        IN  [raised |-> FALSE,
             value |-> [image_type |-> image_type,
                        analysis_results |-> analysis_results,
                        recommendations |-> generate_image_recommendations(analysis_results),
                        confidence_score |-> analysis_results.confidence,
                        requires_professional_review |-> analysis_results.severity_score > 6]]
\* analyze_image: raised tells whether an exception leaves the method, value is
\* the mapping it returns otherwise.  except Exception catches whatever the
\* statements of the try block raise.
analyze_image(image_data, image_type) ==
    IF image_data.fails_at \in FailurePoints THEN
        [raised |-> FALSE,
         value |-> [error |-> "Image analysis failed: " \o image_data.fails_at,
                    recommendations |->
                        <<"Please consult healthcare professional for proper evaluation">>,
                    confidence_score |-> RatOfInt(0),
                    requires_professional_review |-> TRUE]]
    ELSE
        LET analysis_results == analyze_image_features(image_data.features)
        IN  [raised |-> FALSE,
             value |-> [image_type |-> image_type,
                        analysis_results |-> analysis_results,
                        recommendations |-> generate_image_recommendations(analysis_results),
                        confidence_score |-> analysis_results.confidence,
                        requires_professional_review |-> analysis_results.severity_score > 6]]

(***************************************************************************)
(* TriageLogic.  A timedelta is its number of whole seconds: the           *)
(* processing times used are whole minutes and the weights are tenths, so  *)
(* every product below is a whole number of seconds, which the             *)
(* microsecond rounding of timedelta * float leaves unchanged.             *)
(***************************************************************************)
Priorities == {"CRITICAL", "URGENT", "MODERATE", "LOW"}

\* the attributes __init__ sets: the weights as tenths, the thresholds in seconds
TriageLogic == [
  priority_weights |-> [CRITICAL |-> Rat(10, 10), URGENT |-> Rat(8, 10),
                        MODERATE |-> Rat(5, 10), LOW |-> Rat(2, 10)],
  wait_time_thresholds |-> [CRITICAL |-> 15 * 60, URGENT |-> 1 * 3600,
                            MODERATE |-> 3 * 3600, LOW |-> 4 * 3600] ]

\* priority_weights with the weight of LOW mistyped (2.0 for 0.2)
priority_weights_typo(priority) ==
    CASE priority = "CRITICAL" -> Rat(10, 10)
      [] priority = "URGENT" -> Rat(8, 10)
      [] priority = "MODERATE" -> Rat(5, 10)
      [] priority = "LOW" -> Rat(20, 10)
\* self.priority_weights[priority]
priority_weights(priority) ==
    triage_logic.priority_weights[priority]

\* self.wait_time_thresholds[priority], in seconds
wait_time_thresholds(priority) ==
    triage_logic.wait_time_thresholds[priority]

\* get_priority_level with the thresholds excluded (> for >=)
get_priority_level_exclusive(severity_score) ==
    IF RatGT(severity_score, RatOfInt(8)) THEN "CRITICAL"
    ELSE IF RatGT(severity_score, RatOfInt(6)) THEN "URGENT"
    ELSE IF RatGT(severity_score, RatOfInt(4)) THEN "MODERATE"
    ELSE "LOW"
get_priority_level(severity_score) ==
    IF RatGE(severity_score, RatOfInt(8)) THEN "CRITICAL"
    ELSE IF RatGE(severity_score, RatOfInt(6)) THEN "URGENT"
    ELSE IF RatGE(severity_score, RatOfInt(4)) THEN "MODERATE"
    ELSE "LOW"

\* CountAhead counting the patients of equal weight too (>= for >)
RECURSIVE CountAhead_ties(_, _, _, _)
CountAhead_ties(queue, i, weight, position) ==
    IF i > Len(queue) THEN position
    ELSE CountAhead_ties(queue, i + 1, weight,
                         IF RatGE(priority_weights(queue[i].priority), weight)
                         THEN position + 1 ELSE position)
\* the loop of calculate_queue_position over the patients from index i on
RECURSIVE CountAhead(_, _, _, _)
CountAhead(queue, i, weight, position) ==
    IF i > Len(queue) THEN position
    ELSE CountAhead(queue, i + 1, weight,
                    IF RatGT(priority_weights(queue[i].priority), weight)
                    THEN position + 1 ELSE position)

\* calculate_queue_position adding the new patient to the list it was handed
calculate_queue_position_enqueues(severity_score, arrival_time, queue) ==
    LET priority == get_priority_level(severity_score)
        weight == priority_weights(priority)
    IN  [position |-> CountAhead(queue, 1, weight, 1), priority |-> priority,
         current_queue |-> Append(queue, [priority |-> priority,
                                          arrival_time |-> arrival_time])]
\* the pair calculate_queue_position returns, and the list current_queue (handed
\* over by reference) as the call leaves it: the loop only reads it
calculate_queue_position(severity_score, arrival_time, queue) ==
    LET priority == get_priority_level(severity_score)
        weight == priority_weights(priority)
    IN  [position |-> CountAhead(queue, 1, weight, 1), priority |-> priority,
         current_queue |-> queue]

format_wait_time(wait_time) ==
    IF wait_time < 60 THEN "Immediate"
    ELSE IF wait_time < 3600 THEN ToString(wait_time \div 60) \o " minutes"
    ELSE LET hours == wait_time \div 3600
             minutes == (wait_time % 3600) \div 60
         IN  IF minutes = 0 THEN ToString(hours) \o " hours"
             ELSE ToString(hours) \o " hours " \o ToString(minutes) \o " minutes"

\* final_wait_time scaling by the weight instead of (1 - weight)
final_wait_time_by_weight(queue_position, priority, avg_processing_time) ==
    LET base_wait == queue_position * avg_processing_time
        priority_factor == priority_weights(priority)
        adjusted_wait == (base_wait * priority_factor.num) \div priority_factor.den
        max_wait == wait_time_thresholds(priority)
    IN  IF max_wait < adjusted_wait THEN max_wait ELSE adjusted_wait
\* final_wait_time without the cap at the threshold
final_wait_time_uncapped(queue_position, priority, avg_processing_time) ==
    LET base_wait == queue_position * avg_processing_time
        priority_factor == priority_weights(priority)
    IN  (base_wait * (priority_factor.den - priority_factor.num)) \div priority_factor.den
\* final_wait of estimate_wait_time, in seconds
final_wait_time(queue_position, priority, avg_processing_time) ==
    LET base_wait == queue_position * avg_processing_time
        priority_factor == priority_weights(priority)
        adjusted_wait == (base_wait * (priority_factor.den - priority_factor.num))
                            \div priority_factor.den
        max_wait == wait_time_thresholds(priority)
    IN  IF max_wait < adjusted_wait THEN max_wait ELSE adjusted_wait

estimate_wait_time(queue_position, priority, avg_processing_time) ==
    format_wait_time(final_wait_time(queue_position, priority, avg_processing_time))

get_room_type(priority) ==
    CASE priority = "CRITICAL" -> "Emergency Room"
      [] priority = "URGENT" -> "Urgent Care Room"
      [] priority = "MODERATE" -> "Examination Room"
      [] priority = "LOW" -> "Consultation Room"

get_staff_level(priority) ==
    CASE priority = "CRITICAL" -> "Emergency Team"
      [] priority = "URGENT" -> "Urgent Care Team"
      [] priority = "MODERATE" -> "Nurse + Doctor"
      [] priority = "LOW" -> "Nurse"

\* the two dictionaries _get_equipment builds at every call
base_equipment(priority) ==
    CASE priority = "CRITICAL" -> <<"Defibrillator", "Ventilator", "IV Supplies">>
      [] priority = "URGENT" -> <<"IV Supplies", "Monitoring Equipment">>
      [] priority = "MODERATE" -> <<"Basic Medical Supplies">>
      [] priority = "LOW" -> <<"Basic Medical Supplies">>

SpecialtiesWithEquipment == {"Cardiology", "Neurology", "Dermatology", "Orthopedics"}

specialty_equipment(specialty) ==
    CASE specialty = "Cardiology" -> <<"ECG Machine", "Blood Pressure Monitor">>
      [] specialty = "Neurology" -> <<"Neurological Assessment Kit">>
      [] specialty = "Dermatology" -> <<"Dermatoscope", "Skin Biopsy Kit">>
      [] specialty = "Orthopedics" -> <<"X-ray Machine", "Splinting Supplies">>

\* get_equipment leaving the specialty's list out
get_equipment_base_only(priority, specialty) ==
    base_equipment(priority)

\* equipment = base_equipment[priority].copy(), extended by the specialty's list
get_equipment(priority, specialty) ==
    LET equipment == base_equipment(priority)
    IN  IF specialty \in SpecialtiesWithEquipment
        THEN equipment \o specialty_equipment(specialty)
        ELSE equipment

calculate_resource_allocation(severity_score, specialty) ==
    LET priority == get_priority_level(severity_score)
    IN  [room_type |-> get_room_type(priority),
         staff_level |-> get_staff_level(priority),
         equipment |-> get_equipment(priority, specialty)]
(***************************************************************************)
(* Inputs.                                                                 *)
(***************************************************************************)
\* raw symptom texts: up to MaxPhrases phrases joined by separators, between a
\* leading and a trailing decoration
Phrases == {"chest pain", "High fever", "headache", "bruise", "slight  fever", "tired",
            "stroke", "mild-pain"}
Separators == {" ", "", ", "}
Decorations == {<<"", "">>, <<"  ", "\n">>, <<"", "!">>}

RECURSIVE PhraseTexts(_)
PhraseTexts(n) ==
    IF n = 0 THEN {""}
    ELSE IF n = 1 THEN Phrases
    ELSE {t \o sep \o p : t \in PhraseTexts(n - 1), sep \in Separators, p \in Phrases}

Texts == {d[1] \o b \o d[2] : d \in Decorations,
                              b \in UNION {PhraseTexts(n) : n \in 0..MaxPhrases}}

\* what a user types in the text area of the symptom page
SampleTexts == {"", "   ", "chest pain", "Bruise!", "high fever", "I feel tired",
                "fever, headache", "stroke and chest pain"}
PainScales == 1..10

\* the specialties the symptom analyzer recommends, and one it does not know
Specialties == {specialty_mapping[i].specialty : i \in 1..Len(specialty_mapping)}
                  \cup {"Oncology"}
\* severity scores around the thresholds, in hundredths
Scores == {Rat(n, 100) : n \in {-100, 0, 200, 300, 399, 400, 401, 599, 600, 601, 700,
                                 799, 800, 801, 1000, 1100}}

ArrivalTimes == {0, 1}
default_avg_processing_time == 15 * 60
AvgProcessingTimes == {default_avg_processing_time, 30 * 60}

RECURSIVE Queues(_)
Queues(n) ==
    IF n = 0 THEN {<<>>}
    ELSE Queues(n - 1) \cup
         {Append(q, [priority |-> p, arrival_time |-> Len(q)])
            : q \in {q2 \in Queues(n - 1) : Len(q2) = n - 1}, p \in Priorities}

FeatureSets ==
    [red_percentage : {RatOfInt(0), RatOfInt(20), RatOfInt(25)},
     color_uniformity : {RatOfInt(10), RatOfInt(50), RatOfInt(51)},
     texture_variance : {RatOfInt(500), RatOfInt(1000), RatOfInt(1001)},
     edge_density : {RatOfInt(10), RatOfInt(30), Rat(301, 10)},
     irregularity_score : {Rat(2, 10), Rat(7, 10), Rat(71, 100), RatOfInt(1)},
     contour_count : {2, 5, 6}]

ImageTypes == {"skin", "wound", "general"}

PlainFeatures ==
    [red_percentage |-> RatOfInt(25), color_uniformity |-> RatOfInt(10),
     texture_variance |-> RatOfInt(500), edge_density |-> RatOfInt(10),
     irregularity_score |-> Rat(2, 10), contour_count |-> 2]

\* images that are analysed, and images that fail at each place of the try
\* block (only a str argument is decoded)
ImageData ==
    [is_str : BOOLEAN, fails_at : {"none"}, features : FeatureSets]
    \cup {d \in [is_str : BOOLEAN, fails_at : FailurePoints, features : {PlainFeatures}]
            : d.fails_at = "decode" => d.is_str}

(***************************************************************************)
(* The state machine.  The components share no state and none calls        *)
(* another except the app, which calls the symptom analyzer: a behaviour   *)
(* exercises one of them, named by component.                              *)
(***************************************************************************)
Idle ==
    /\ symptom_text = ""
    /\ pain_scale = 5
    /\ results = None
    /\ st_error = FALSE
    /\ patient_records = <<>>
    /\ image_input = None
    /\ image_results = None
    /\ image_raised = FALSE
    /\ current_queue = <<>>
    /\ triage_call = NoCall
    /\ repeat = None
    /\ symptom_analyzer = LightweightSymptomAnalyzer
    /\ triage_logic = TriageLogic

\* ---- the symptom analyzer, called on one text
InitSymptom ==
    /\ component = "symptom_analyzer"
    /\ symptom_text \in Texts
    /\ pain_scale = 5
    /\ results = None
    /\ st_error = FALSE
    /\ patient_records = <<>>
    /\ image_input = None
    /\ image_results = None
    /\ image_raised = FALSE
    /\ current_queue = <<>>
    /\ triage_call = NoCall
    /\ repeat = None
    /\ symptom_analyzer = LightweightSymptomAnalyzer
    /\ triage_logic = TriageLogic

\* analyze_symptoms is called on the text, and then once more on the same text;
\* the order list(set(...)) gives a set of strings is fixed within a process, so
\* the second call keeps the key symptoms the first one kept
AnalyzeSymptoms ==
    /\ component = "symptom_analyzer"
    /\ \/ /\ results = None
          /\ results' \in analyze_symptoms(symptom_text)
          /\ UNCHANGED repeat
       \/ /\ results # None
          /\ repeat = None
          /\ repeat' \in {r \in analyze_symptoms(symptom_text)
                            : r.key_symptoms = results.key_symptoms}
          /\ UNCHANGED results
    /\ UNCHANGED <<symptom_analyzer, triage_logic, component, symptom_text, pain_scale,
                   st_error, patient_records, image_input, image_results, image_raised,
                   current_queue, triage_call>>

\* ---- the symptom page of the app: one press of "Analyze Symptoms"
InitApp ==
    /\ component = "app"
    /\ Idle

\* adjust_severity without the cap at 10
adjust_severity_uncapped(severity_score, pain) ==
    RatAdd(severity_score, Rat((pain - 5) * 5, 10))
\* min(results['severity_score'] + (pain_scale - 5) * 0.5, 10)
adjust_severity(severity_score, pain) ==
    RatMin(RatAdd(severity_score, Rat((pain - 5) * 5, 10)), RatOfInt(10))

\* adjust_results leaving the analyzer's priority_level in place
adjust_results_stale_priority(r, pain) ==
    [r EXCEPT !.severity_score = adjust_severity(r.severity_score, pain)]
\* the mapping the page displays: the analyzer's, with severity_score and
\* priority_level replaced
adjust_results(r, pain) ==
    LET adjusted_severity == adjust_severity(r.severity_score, pain)
    IN  [r EXCEPT !.severity_score = adjusted_severity,
                  !.priority_level = calculate_priority(adjusted_severity)]

PressAnalyze ==
    /\ component = "app"
    /\ \E text \in SampleTexts :
        /\ symptom_text' = text
        /\ \/ /\ str_strip(text) # ""
              /\ Len(patient_records) < MaxRecords
              /\ \E r \in analyze_symptoms(text), pain \in PainScales :
                    LET shown == adjust_results(r, pain)
                    IN  /\ pain_scale' = pain
                        /\ results' = shown
                        /\ patient_records' = Append(patient_records,
                                [symptoms |-> text,
                                 severity_score |-> shown.severity_score,
                                 priority |-> shown.priority_level,
                                 specialty |-> shown.recommended_specialty,
                                 pain_scale |-> pain])
              /\ st_error' = FALSE
           \/ /\ str_strip(text) = ""
              /\ pain_scale' \in PainScales
              /\ st_error' = TRUE
              /\ results' = None
              /\ UNCHANGED patient_records
    /\ UNCHANGED <<symptom_analyzer, triage_logic, component, image_input, image_results,
                   image_raised, current_queue, triage_call, repeat>>

\* ---- the image analyzer, called on one image
InitImage ==
    /\ component = "image_analyzer"
    /\ image_input \in [data : ImageData, image_type : ImageTypes]
    /\ image_results = None
    /\ image_raised = FALSE
    /\ symptom_text = ""
    /\ pain_scale = 5
    /\ results = None
    /\ st_error = FALSE
    /\ patient_records = <<>>
    /\ current_queue = <<>>
    /\ triage_call = NoCall
    /\ repeat = None
    /\ symptom_analyzer = LightweightSymptomAnalyzer
    /\ triage_logic = TriageLogic

AnalyzeImage ==
    /\ component = "image_analyzer"
    /\ image_results = None
    /\ ~image_raised
    /\ LET r == analyze_image(image_input.data, image_input.image_type)
       IN  /\ image_raised' = r.raised
           /\ image_results' = IF r.raised THEN None ELSE r.value
    /\ UNCHANGED <<symptom_analyzer, triage_logic, component, symptom_text, pain_scale,
                   results, st_error, patient_records, image_input, current_queue,
                   triage_call, repeat>>

\* ---- the triage logic, called on one queue snapshot
InitTriage ==
    /\ component = "triage_logic"
    /\ current_queue \in Queues(MaxQueue)
    /\ triage_call = NoCall
    /\ repeat = None
    /\ symptom_analyzer = LightweightSymptomAnalyzer
    /\ triage_logic = TriageLogic
    /\ symptom_text = ""
    /\ pain_scale = 5
    /\ results = None
    /\ st_error = FALSE
    /\ patient_records = <<>>
    /\ image_input = None
    /\ image_results = None
    /\ image_raised = FALSE

\* every method is called once (triage_call) and then once more with the same
\* arguments (repeat)
CalculateQueuePosition ==
    /\ component = "triage_logic"
    /\ \E severity_score \in Scores, arrival_time \in ArrivalTimes :
        LET call == calculate_queue_position(severity_score, arrival_time, current_queue)
            returned == [op |-> "calculate_queue_position",
                         severity_score |-> severity_score,
                         arrival_time |-> arrival_time,
                         position |-> call.position,
                         priority |-> call.priority]
        IN  /\ \/ /\ triage_call = NoCall
                  /\ triage_call' = returned
                  /\ UNCHANGED repeat
               \/ /\ triage_call # NoCall
                  /\ triage_call.op = "calculate_queue_position"
                  /\ triage_call.severity_score = severity_score
                  /\ triage_call.arrival_time = arrival_time
                  /\ repeat = None
                  /\ repeat' = returned
                  /\ UNCHANGED triage_call
            /\ current_queue' = call.current_queue
    /\ UNCHANGED <<symptom_analyzer, triage_logic, component, symptom_text, pain_scale,
                   results, st_error, patient_records, image_input, image_results,
                   image_raised>>

EstimateWaitTime ==
    /\ component = "triage_logic"
    /\ \E queue_position \in 1..MaxPosition, priority \in Priorities,
          avg_processing_time \in AvgProcessingTimes :
        LET returned == [op |-> "estimate_wait_time",
                         queue_position |-> queue_position,
                         priority |-> priority,
                         avg_processing_time |-> avg_processing_time,
                         wait |-> estimate_wait_time(queue_position, priority,
                                                     avg_processing_time)]
        IN  \/ /\ triage_call = NoCall
               /\ triage_call' = returned
               /\ UNCHANGED repeat
            \/ /\ triage_call # NoCall
               /\ triage_call.op = "estimate_wait_time"
               /\ triage_call.queue_position = queue_position
               /\ triage_call.priority = priority
               /\ triage_call.avg_processing_time = avg_processing_time
               /\ repeat = None
               /\ repeat' = returned
               /\ UNCHANGED triage_call
    /\ UNCHANGED <<symptom_analyzer, triage_logic, component, symptom_text, pain_scale,
                   results, st_error, patient_records, image_input, image_results,
                   image_raised, current_queue>>

CalculateResourceAllocation ==
    /\ component = "triage_logic"
    /\ \E severity_score \in Scores, specialty \in Specialties :
        LET returned == [op |-> "calculate_resource_allocation",
                         severity_score |-> severity_score,
                         specialty |-> specialty,
                         resources |-> calculate_resource_allocation(severity_score,
                                                                     specialty)]
        IN  \/ /\ triage_call = NoCall
               /\ triage_call' = returned
               /\ UNCHANGED repeat
            \/ /\ triage_call # NoCall
               /\ triage_call.op = "calculate_resource_allocation"
               /\ triage_call.severity_score = severity_score
               /\ triage_call.specialty = specialty
               /\ repeat = None
               /\ repeat' = returned
               /\ UNCHANGED triage_call
    /\ UNCHANGED <<symptom_analyzer, triage_logic, component, symptom_text, pain_scale,
                   results, st_error, patient_records, image_input, image_results,
                   image_raised, current_queue>>

NextSymptom == AnalyzeSymptoms
NextApp == PressAnalyze
NextImage == AnalyzeImage
NextTriage == CalculateQueuePosition \/ EstimateWaitTime \/ CalculateResourceAllocation

Init == InitSymptom \/ InitApp \/ InitImage \/ InitTriage
Next == AnalyzeSymptoms \/ PressAnalyze \/ AnalyzeImage \/ CalculateQueuePosition
        \/ EstimateWaitTime \/ CalculateResourceAllocation

SpecSymptom == InitSymptom /\ [][NextSymptom]_vars
SpecApp == InitApp /\ [][NextApp]_vars
SpecImage == InitImage /\ [][NextImage]_vars
SpecTriage == InitTriage /\ [][NextTriage]_vars
\* the symptom analyzer and the triage logic, without the pages of the app
InitAnalyzers == InitSymptom \/ InitTriage
NextAnalyzers == AnalyzeSymptoms \/ CalculateQueuePosition \/ EstimateWaitTime
                    \/ CalculateResourceAllocation
SpecAnalyzers == InitAnalyzers /\ [][NextAnalyzers]_vars
Spec == Init /\ [][Next]_vars

(***************************************************************************)
(* Properties.                                                             *)
(***************************************************************************)
\* the documented step function of the severity score
DocumentedTier(s) ==
    CASE RatGE(s, RatOfInt(8)) -> "CRITICAL"
      [] RatGE(s, RatOfInt(6)) /\ RatLT(s, RatOfInt(8)) -> "URGENT"
      [] RatGE(s, RatOfInt(4)) /\ RatLT(s, RatOfInt(6)) -> "MODERATE"
      [] RatLT(s, RatOfInt(4)) -> "LOW"

QueueCalled == triage_call.op = "calculate_queue_position"
WaitCalled == triage_call.op = "estimate_wait_time"

\* C1: for every severity score, _get_priority_level (whose answer
\* calculate_queue_position returns) and _calculate_priority both give the
\* documented tier (>= 8 CRITICAL, >= 6 URGENT, >= 4 MODERATE, else LOW), hence
\* the same tier.
C1_PriorityStepFunction ==
    QueueCalled =>
        /\ triage_call.priority = DocumentedTier(triage_call.severity_score)
        /\ calculate_priority(triage_call.severity_score)
              = DocumentedTier(triage_call.severity_score)
        /\ calculate_priority(triage_call.severity_score) = triage_call.priority

\* a score exactly on the highest threshold is CRITICAL
C1_Witness ==
    /\ QueueCalled
    /\ RatEq(triage_call.severity_score, RatOfInt(8))
    /\ triage_call.priority = "CRITICAL"

\* the priority weights as documented, in tenths
DocumentedWeight(priority) ==
    CASE priority = "CRITICAL" -> 10
      [] priority = "URGENT" -> 8
      [] priority = "MODERATE" -> 5
      [] priority = "LOW" -> 2

\* the entries of the queue that are ahead of a new entry of the given priority
Ahead(queue, priority) ==
    {i \in DOMAIN queue : DocumentedWeight(queue[i].priority) > DocumentedWeight(priority)}

\* the rearrangements of a queue
Rearrangements(queue) ==
    {[i \in DOMAIN queue |-> queue[f[i]]]
        : f \in {g \in [DOMAIN queue -> DOMAIN queue]
                    : \A i, j \in DOMAIN queue : g[i] = g[j] => i = j}}

\* C8: calculate_queue_position returns 1 + the number of queue entries whose
\* weight is strictly greater than the new entry's; so the position lies in
\* 1..len(queue)+1 and is the same for every arrival_time and every order of the
\* entries.
C8_QueuePosition ==
    QueueCalled =>
        /\ triage_call.position
              = 1 + Cardinality(Ahead(current_queue, DocumentedTier(triage_call.severity_score)))
        /\ triage_call.position >= 1
        /\ triage_call.position <= Len(current_queue) + 1
        /\ \A arrival_time \in ArrivalTimes, queue \in Rearrangements(current_queue) :
              calculate_queue_position(triage_call.severity_score, arrival_time, queue).position
                  = triage_call.position

\* a queue holding an entry ahead of the new one, one of its own priority and
\* one behind it
C8_Witness ==
    /\ QueueCalled
    /\ triage_call.position = 2
    /\ Len(current_queue) = 3
    /\ \E i \in DOMAIN current_queue : current_queue[i].priority = triage_call.priority
    /\ \E i \in DOMAIN current_queue :
          DocumentedWeight(current_queue[i].priority) < DocumentedWeight(triage_call.priority)

\* C9: for a fixed queue, a higher severity score never gets a later position;
\* a CRITICAL entry in a queue of LOW entries gets position 1.
C9_PositionMonotonic ==
    QueueCalled =>
        /\ \A s2 \in Scores :
              RatGE(triage_call.severity_score, s2) =>
                  triage_call.position
                      <= calculate_queue_position(s2, triage_call.arrival_time,
                                                  current_queue).position
        /\ (/\ triage_call.priority = "CRITICAL"
            /\ \A i \in DOMAIN current_queue : current_queue[i].priority = "LOW")
              => triage_call.position = 1

C9_Witness ==
    /\ QueueCalled
    /\ triage_call.priority = "CRITICAL"
    /\ Len(current_queue) = 3
    /\ \A i \in DOMAIN current_queue : current_queue[i].priority = "LOW"
    /\ triage_call.position = 1

\* the number a string of decimal digits writes
RECURSIVE ParseNat(_)
ParseNat(s) ==
    IF s = "" THEN 0
    ELSE LET last == SubSeq(s, Len(s), Len(s))
             d == CHOOSE k \in 0..9 : SubSeq(DigitChars, k + 1, k + 1) = last
         IN  10 * ParseNat(SubSeq(s, 1, Len(s) - 1)) + d

\* the words of a string, split at single spaces
RECURSIVE Words(_)
Words(s) ==
    IF \E i \in 1..Len(s) : SubSeq(s, i, i) = " "
    THEN LET i == CHOOSE j \in 1..Len(s) :
                    /\ SubSeq(s, j, j) = " "
                    /\ \A k \in 1..(j - 1) : SubSeq(s, k, k) # " "
         IN  <<SubSeq(s, 1, i - 1)>> \o Words(SubSeq(s, i + 1, Len(s)))
    ELSE <<s>>

\* the longest duration, in seconds, a displayed wait can stand for:
\* _format_wait_time drops the seconds of a minute
DisplayedWait(s) ==
    LET w == Words(s)
    IN  CASE s = "Immediate" -> 0
          [] Len(w) = 2 /\ w[2] = "minutes" -> ParseNat(w[1]) * 60
          [] Len(w) = 2 /\ w[2] = "hours" -> ParseNat(w[1]) * 3600
          [] Len(w) = 4 /\ w[2] = "hours" /\ w[4] = "minutes"
                -> ParseNat(w[1]) * 3600 + ParseNat(w[3]) * 60

DocumentedThreshold(priority) ==
    CASE priority = "CRITICAL" -> 15 * 60
      [] priority = "URGENT" -> 60 * 60
      [] priority = "MODERATE" -> 3 * 60 * 60
      [] priority = "LOW" -> 4 * 60 * 60

\* C10: for every position >= 1 and every tier, the wait estimate_wait_time
\* returns is at most the tier's threshold (15 minutes, 1 hour, 3 hours, 4 hours).
C10_WaitWithinThreshold ==
    WaitCalled =>
        DisplayedWait(triage_call.wait) <= DocumentedThreshold(triage_call.priority)

\* a position at which the uncapped wait of a LOW entry exceeds four hours
C10_Witness ==
    /\ WaitCalled
    /\ triage_call.priority = "LOW"
    /\ triage_call.avg_processing_time = default_avg_processing_time
    /\ triage_call.queue_position = 21
    /\ triage_call.wait = "4 hours"

ImageReturned == component = "image_analyzer" /\ image_results # None
ImageFailed == ImageReturned /\ "error" \in DOMAIN image_results
ImageAnalysed == ImageReturned /\ "error" \notin DOMAIN image_results

\* the documented rules: the points each adds when it fires
DocumentedImageRules(f) ==
    {<<"red_percentage", IF RatGT(f.red_percentage, RatOfInt(20)) THEN 3 ELSE 0>>,
     <<"hue_std_dev", IF RatGT(f.color_uniformity, RatOfInt(50)) THEN 2 ELSE 0>>,
     <<"texture_variance", IF RatGT(f.texture_variance, RatOfInt(1000)) THEN 2 ELSE 0>>,
     <<"edge_density", IF RatGT(f.edge_density, RatOfInt(30)) THEN 1 ELSE 0>>,
     <<"irregularity", IF RatGT(f.irregularity_score, Rat(7, 10)) THEN 2 ELSE 0>>,
     <<"contour_count", IF f.contour_count > 5 THEN 1 ELSE 0>>}

RECURSIVE SumPoints(_)
SumPoints(rules) ==
    IF rules = {} THEN 0
    ELSE LET r == CHOOSE x \in rules : TRUE
         IN  r[2] + SumPoints(rules \ {r})

\* C5: for every combination of feature values the image severity is
\* min(10, sum of the rules that fire), each rule comparing strictly; red 25,
\* hue std-dev 10, variance 500, edge density 10, irregularity 0.2, contour
\* count 2 give exactly 3.
C5_ImageSeverity ==
    ImageAnalysed =>
        LET f == image_input.data.features
            total == SumPoints(DocumentedImageRules(f))
        IN  /\ image_results.analysis_results.severity_score
                  = (IF total > 10 THEN 10 ELSE total)
            /\ f = PlainFeatures => image_results.analysis_results.severity_score = 3

C5_Witness ==
    /\ ImageAnalysed
    /\ image_input.data.features = PlainFeatures
    /\ image_results.analysis_results.severity_score = 3

\* C6: the confidence of a successful image analysis is severity_score * 10
\* clamped to [40, 85] (40 for severity <= 4, 85 for severity >= 9), and the
\* top-level confidence_score is the same value.
C6_ImageConfidence ==
    ImageAnalysed =>
        LET severity == image_results.analysis_results.severity_score
            confidence == image_results.analysis_results.confidence
        IN  /\ RatEq(confidence,
                     RatOfInt(IF severity * 10 < 40 THEN 40
                              ELSE IF severity * 10 > 85 THEN 85
                              ELSE severity * 10))
            /\ severity <= 4 => RatEq(confidence, RatOfInt(40))
            /\ severity >= 9 => RatEq(confidence, RatOfInt(85))
            /\ image_results.confidence_score = confidence

C6_Witness ==
    /\ ImageAnalysed
    /\ image_results.analysis_results.severity_score = 3
    /\ RatEq(image_results.confidence_score, RatOfInt(40))

\* C7: analyze_image lets no exception reach its caller; a failure while
\* decoding or processing yields a mapping with 'error',
\* requires_professional_review = True, confidence_score = 0.0 and the one
\* generic recommendation; a mapping has 'error' exactly when there was a failure.
C7_ImageErrorResult ==
    /\ ~image_raised
    /\ ImageReturned =>
        /\ ImageFailed <=> image_input.data.fails_at \in FailurePoints
        /\ ImageFailed =>
            /\ image_results.requires_professional_review = TRUE
            /\ RatEq(image_results.confidence_score, RatOfInt(0))
            /\ image_results.recommendations
                  = <<"Please consult healthcare professional for proper evaluation">>

\* an image that decodes and fails while its features are computed
C7_Witness ==
    /\ ImageFailed
    /\ image_input.data.fails_at = "features"
    /\ image_results.requires_professional_review = TRUE

SymptomReturned == component = "symptom_analyzer" /\ results # None
AppShown == component = "app" /\ results # None

\* the documented score of a tier of keywords
DocumentedTierScore(name) ==
    CASE name = "critical" -> 10
      [] name = "urgent" -> 7
      [] name = "moderate" -> 4
      [] name = "low" -> 2

\* the keywords of the four lists that occur in the text, each with the
\* documented score of its list
MatchedKeywords(text) ==
    {<<severity_keywords[i].keywords[j], DocumentedTierScore(severity_keywords[i].name)>>
        : <<i, j>> \in {p \in (1..Len(severity_keywords)) \X (1..7)
                          : /\ p[2] <= Len(severity_keywords[p[1]].keywords)
                            /\ str_in(severity_keywords[p[1]].keywords[p[2]], text)}}

\* the documented severity of a normalized text
DocumentedSeverity(text) ==
    LET matched == MatchedKeywords(text)
        average == Rat(SumPoints(matched), Cardinality(matched))
    IN  IF matched = {} THEN RatOfInt(3)
        ELSE IF RatGT(average, RatOfInt(10)) THEN RatOfInt(10)
        ELSE average

\* C3: the severity of a normalized text is the average of the tier scores
\* (10, 7, 4, 2) over every keyword of the four lists that occurs in it, capped
\* at 10, and 3.0 when none occurs; "chest pain" alone gets 10 and CRITICAL.
C3_SeverityIsAverage ==
    SymptomReturned =>
        LET text == clean_text(symptom_text)
        IN  /\ RatEq(calculate_severity_lightweight(text), DocumentedSeverity(text))
            /\ results.severity_score = PyRound(DocumentedSeverity(text), 100)
            /\ str_strip(text) = "chest pain" =>
                  /\ RatEq(results.severity_score, RatOfInt(10))
                  /\ results.priority_level = "CRITICAL"

\* three keywords of two tiers: "high fever" (7), "fever" (4), "headache" (4)
C3_Witness ==
    /\ SymptomReturned
    /\ Cardinality(MatchedKeywords(clean_text(symptom_text))) = 3
    /\ RatEq(results.severity_score, RatOfInt(5))

\* C4: analyze_symptoms on a text that normalizes to zero words (the empty
\* text among them) returns a result mapping, not an error, with
\* severity_score 3.0 and confidence_score 0.0.
C4_EmptyText ==
    (/\ component = "symptom_analyzer"
     /\ split_len(clean_text(symptom_text)) = 0)
        => /\ ENABLED AnalyzeSymptoms \/ results # None
           /\ results # None =>
                /\ DOMAIN results = {"severity_score", "priority_level", "recommended_specialty",
                                     "key_symptoms", "recommendations", "estimated_wait_time",
                                     "urgency_flag", "confidence_score"}
                /\ RatEq(results.severity_score, RatOfInt(3))
                /\ RatEq(results.confidence_score, RatOfInt(0))

C4_Witness ==
    /\ SymptomReturned
    /\ symptom_text = ""
    /\ RatEq(results.severity_score, RatOfInt(3))
    /\ RatEq(results.confidence_score, RatOfInt(0))

InRange(x) == RatGE(x, RatOfInt(0)) /\ RatLE(x, RatOfInt(10))

\* C2: every severity score lies in [0, 10]: the one analyze_symptoms returns,
\* the one of the image analysis, and the pain-adjusted one the app displays
\* and stores for any pain_scale in 1..10.
C2_SeverityInRange ==
    /\ SymptomReturned => InRange(results.severity_score)
    /\ ImageAnalysed => InRange(RatOfInt(image_results.analysis_results.severity_score))
    /\ AppShown => InRange(results.severity_score)
    /\ \A i \in DOMAIN patient_records : InRange(patient_records[i].severity_score)

\* the lowest case: a text of the LOW tier alone (2.0) with pain 1 (-2.0)
C2_Witness ==
    /\ AppShown
    /\ pain_scale = 1
    /\ RatEq(results.severity_score, RatOfInt(0))
    /\ RatEq(patient_records[Len(patient_records)].severity_score, RatOfInt(0))

ResourcesCalled == triage_call.op = "calculate_resource_allocation"

DocumentedRoom(tier) ==
    CASE tier = "CRITICAL" -> "Emergency Room"
      [] tier = "URGENT" -> "Urgent Care Room"
      [] tier = "MODERATE" -> "Examination Room"
      [] tier = "LOW" -> "Consultation Room"

DocumentedStaff(tier) ==
    CASE tier = "CRITICAL" -> "Emergency Team"
      [] tier = "URGENT" -> "Urgent Care Team"
      [] tier = "MODERATE" -> "Nurse + Doctor"
      [] tier = "LOW" -> "Nurse"

\* C11: calculate_resource_allocation returns the room type and staff level of
\* the severity's tier, and an equipment list that is the tier's base list
\* followed by the specialty's list for Cardiology, Neurology, Dermatology and
\* Orthopedics, and exactly the base list for any other specialty.
C11_ResourceAllocation ==
    ResourcesCalled =>
        LET tier == DocumentedTier(triage_call.severity_score)
            r == triage_call.resources
            base == base_equipment(tier)
        IN  /\ DOMAIN r = {"room_type", "staff_level", "equipment"}
            /\ r.room_type = DocumentedRoom(tier)
            /\ r.staff_level = DocumentedStaff(tier)
            /\ SubSeq(r.equipment, 1, Len(base)) = base
            /\ IF triage_call.specialty
                    \in {"Cardiology", "Neurology", "Dermatology", "Orthopedics"}
               THEN /\ Len(r.equipment) > Len(base)
                    /\ SubSeq(r.equipment, Len(base) + 1, Len(r.equipment))
                          = specialty_equipment(triage_call.specialty)
               ELSE r.equipment = base

C11_Witness ==
    /\ ResourcesCalled
    /\ triage_call.specialty = "Cardiology"
    /\ triage_call.resources.room_type = "Emergency Room"
    /\ triage_call.resources.equipment
          = <<"Defibrillator", "Ventilator", "IV Supplies", "ECG Machine",
              "Blood Pressure Monitor">>


\* the documented wait, in seconds, at the default processing time of 15 minutes:
\* min(position * 15 minutes * (1 - weight), threshold); the weights are tenths
DocumentedWait(position, priority) ==
    LET scaled == (position * 15 * 60 * (10 - DocumentedWeight(priority))) \div 10
        cap == DocumentedThreshold(priority)
    IN  IF scaled <= cap THEN scaled ELSE cap

\* the string that reports a duration given in seconds, read back by DisplayedWait
Reports(s, seconds) ==
    /\ (s = "Immediate") = (seconds < 60)
    /\ DisplayedWait(s) = IF seconds < 60 THEN 0 ELSE (seconds \div 60) * 60

\* C13: with the default processing time, for every position >= 1 and every
\* tier, estimate_wait_time reports min(position * 15 minutes * (1 - weight),
\* threshold); a CRITICAL entry is always reported as "Immediate", and for a
\* fixed tier the wait is non-decreasing in the position.
C13_WaitFormula ==
    (WaitCalled /\ triage_call.avg_processing_time = default_avg_processing_time) =>
        /\ Reports(triage_call.wait,
                   DocumentedWait(triage_call.queue_position, triage_call.priority))
        /\ triage_call.priority = "CRITICAL" => triage_call.wait = "Immediate"
        /\ \A earlier \in 1..triage_call.queue_position :
              /\ final_wait_time(earlier, triage_call.priority, default_avg_processing_time)
                    <= final_wait_time(triage_call.queue_position, triage_call.priority,
                                       default_avg_processing_time)
              /\ DisplayedWait(estimate_wait_time(earlier, triage_call.priority,
                                                  default_avg_processing_time))
                    <= DisplayedWait(triage_call.wait)

\* a MODERATE entry at position 3 waits 3 * 15 * 0.5 = 22.5 minutes, below its cap
C13_Witness ==
    /\ WaitCalled
    /\ triage_call.avg_processing_time = default_avg_processing_time
    /\ triage_call.priority = "MODERATE"
    /\ triage_call.queue_position = 3
    /\ triage_call.wait = "22 minutes"


\* the seven specialties in the order the mapping declares them
DeclaredSpecialties ==
    <<"Emergency", "Cardiology", "Neurology", "Gastroenterology", "Dermatology",
      "Orthopedics", "General Practice">>

\* the number of keywords of the i-th declared specialty that occur in the text
Hits(i, text) ==
    Cardinality({j \in 1..Len(specialty_mapping[i].keywords)
                    : str_in(specialty_mapping[i].keywords[j], text)})

\* C15: the recommended specialty has the maximum keyword-hit count of the seven
\* specialties; of several with the maximum it is the one declared first; it is
\* 'General Practice' when no specialty keyword occurs.
C15_SpecialtyFirstMax ==
    SymptomReturned =>
        LET text == clean_text(symptom_text)
            chosen == results.recommended_specialty
            hits == [j \in 1..7 |-> Hits(j, text)]
        IN  /\ [i \in 1..7 |-> specialty_mapping[i].specialty] = DeclaredSpecialties
            /\ \E i \in 1..7 :
                  /\ DeclaredSpecialties[i] = chosen
                  /\ (\E j \in 1..7 : hits[j] > 0) =>
                        /\ \A j \in 1..7 : hits[j] <= hits[i]
                        /\ \A j \in 1..(i - 1) : hits[j] < hits[i]
            /\ (\A j \in 1..7 : hits[j] = 0) => chosen = "General Practice"

\* "headache" and "fever": Neurology and General Practice tie with one hit each
C15_Witness ==
    /\ SymptomReturned
    /\ Hits(3, clean_text(symptom_text)) = 1
    /\ Hits(7, clean_text(symptom_text)) = 1
    /\ Hits(1, clean_text(symptom_text)) = 0
    /\ results.recommended_specialty = "Neurology"

\* the documented confidence of a normalized text, before it is rounded to one
\* decimal
DocumentedConfidence(text) ==
    LET matched == Cardinality(MatchedKeywords(text))
        words == split_len(text)
    IN  IF words = 0 THEN RatOfInt(0)
        ELSE RatMin(Rat(matched * 100, words), RatOfInt(95))

C18_NoMatchIsModerate ==
    (SymptomReturned /\ MatchedKeywords(clean_text(symptom_text)) = {}) =>
        /\ RatEq(results.severity_score, RatOfInt(3))
        /\ results.priority_level = "MODERATE"

\* the lowest score of each tier
TierFloor(tier) ==
    CASE tier = "CRITICAL" -> RatOfInt(8)
      [] tier = "URGENT" -> RatOfInt(6)
      [] tier = "MODERATE" -> RatOfInt(4)
      [] tier = "LOW" -> RatOfInt(0)

\* the recommendations and the wait string the tables hold for a tier
DocumentedRecommendations(tier, specialty) ==
    generate_recommendations(TierFloor(tier), specialty)

DocumentedWaitString(tier) ==
    CASE tier = "CRITICAL" -> "Immediate (0-15 minutes)"
      [] tier = "URGENT" -> "Priority (30-60 minutes)"
      [] tier = "MODERATE" -> "Standard (1-3 hours)"
      [] tier = "LOW" -> "Routine (2-4 hours)"

MatchesItsTier(r) ==
    /\ r.recommendations
          = DocumentedRecommendations(r.priority_level, r.recommended_specialty)
    /\ r.estimated_wait_time = DocumentedWaitString(r.priority_level)

\* C14: in every symptom result mapping shown to the user, the recommendations
\* and the estimated_wait_time are the table entries of the mapping's
\* priority_level: in the mapping analyze_symptoms returns and in the mapping
\* the app displays after the pain adjustment.
C14_TablesFollowPriority ==
    /\ SymptomReturned => MatchesItsTier(results)
    /\ AppShown => MatchesItsTier(results)

\* C19: in every symptom result mapping priority_level is the 8/6/4 step
\* function of the severity_score of the same mapping (the rounded one
\* analyze_symptoms reports, the pain-adjusted one the app displays and
\* stores); urgency_flag is true for every CRITICAL result of analyze_symptoms
\* and false for every MODERATE or LOW one.
C19_PriorityMatchesScore ==
    /\ SymptomReturned =>
          /\ results.priority_level = DocumentedTier(results.severity_score)
          /\ DocumentedTier(results.severity_score)
                = DocumentedTier(calculate_severity_lightweight(clean_text(symptom_text)))
          /\ results.priority_level = "CRITICAL" => results.urgency_flag
          /\ results.priority_level \in {"MODERATE", "LOW"} => ~results.urgency_flag
    /\ AppShown => results.priority_level = DocumentedTier(results.severity_score)
    /\ \A i \in DOMAIN patient_records :
          patient_records[i].priority = DocumentedTier(patient_records[i].severity_score)

\* the pain scale moves a LOW analysis (2.0) into the MODERATE tier (4.5)
C19_Witness ==
    /\ AppShown
    /\ pain_scale = 10
    /\ RatEq(results.severity_score, Rat(45, 10))
    /\ results.priority_level = "MODERATE"
    /\ ~results.urgency_flag


\* a text that is empty or holds whitespace only
IsBlank(s) == \A i \in 1..Len(s) : SubSeq(s, i, i) \in {" ", "\t", "\n"}

Repeated == repeat # None

=============================================================================
